---------------------------- MODULE Spec2Model ----------------------------
(***************************************************************************)
(* State-machine model of the LLM service of pres1-llm-langchain:          *)
(*   - the /chat handler            (Services/LLM/app.py, chat_with_ai)    *)
(*   - the price calculator tool    (Services/LLM/utils/tools.py)          *)
(*   - the product search tool      (Services/LLM/utils/tools.py)          *)
(*                                                                         *)
(* Text is a sequence of one-character strings, so that replace(), strip() *)
(* float() and int() are computed character by character.                 *)
(* Amounts are integers in units of 10^-5 (Unit per 1.0): Python floats    *)
(* are modelled by exact decimal arithmetic plus the special values inf    *)
(* and nan; the one place where binary rounding is visible, the direction  *)
(* of a tie in "{x:.2f}", is a nondeterministic input of the calculator.   *)
(***************************************************************************)
EXTENDS Integers, Sequences, FiniteSets, TLC

VARIABLES
    calcPc,     \* "idle" (not called), "ready" (arguments bound), "returned"
    calcIn,     \* arguments of PriceCalculatorTool._arun
    calcOut,    \* what PriceCalculatorTool._arun gave back
    searchPc,   \* "idle", "ready", "returned"
    searchIn,   \* arguments of ProductSearchTool._arun
    searchOut,  \* what ProductSearchTool._arun gave back
    catalog,    \* the documents of db.products, in store order
    storeUp,    \* whether the catalog store answers
    chatPc,     \* "idle", "AWAITING_MODEL" (request received), "DONE", "FAILED"
    request,    \* the ChatRequest
    script,     \* the replies of the language model, call after call
    messages,   \* the conversation handed to the language model
    modelCalls, \* number of llm.ainvoke calls made for the request
    outcome,    \* what the caller of /chat gets
    healthPc,   \* "idle", "ready" (GET /health received), "returned"
    probe,      \* what the language model does with the health check's call
    healthOut,  \* what the caller of /health gets
    botPc,      \* "idle", "ready" (update handed to handle_message), "returned"
    update,     \* the Telegram update
    service,    \* what the POST to LLM_API_URL comes to
    posts,      \* the messages posted to LLM_API_URL
    replies     \* the texts given to update.message.reply_text

calcVars == <<calcPc, calcIn, calcOut>>

searchVars == <<searchPc, searchIn, searchOut>>

storeVars == <<catalog, storeUp>>

chatVars == <<chatPc, request, script, messages, modelCalls, outcome>>

healthVars == <<healthPc, probe, healthOut>>

botVars == <<botPc, update, service, posts, replies>>

vars == <<calcVars, searchVars, storeVars, chatVars, healthVars, botVars>>

-----------------------------------------------------------------------------
(* Text helpers.                                                           *)

Digits == <<"0", "1", "2", "3", "4", "5", "6", "7", "8", "9">>

IsDigit(c) == \E i \in 1..10 : Digits[i] = c

DigitVal(c) == (CHOOSE i \in 1..10 : Digits[i] = c) - 1

\* str.replace(c, ""): every occurrence of the character is removed.
Remove(s, c) == SelectSeq(s, LAMBDA x : x # c)

RECURSIVE LStrip(_)
LStrip(s) == IF s # <<>> /\ Head(s) = " " THEN LStrip(Tail(s)) ELSE s

RECURSIVE RStrip(_)
RStrip(s) ==
    IF s # <<>> /\ s[Len(s)] = " " THEN RStrip(SubSeq(s, 1, Len(s) - 1)) ELSE s

\* str.strip()
Strip(s) == RStrip(LStrip(s))

Uppers ==
    <<"A", "B", "C", "D", "E", "F", "G", "H", "I", "J", "K", "L", "M",
      "N", "O", "P", "Q", "R", "S", "T", "U", "V", "W", "X", "Y", "Z">>

Lowers ==
    <<"a", "b", "c", "d", "e", "f", "g", "h", "i", "j", "k", "l", "m",
      "n", "o", "p", "q", "r", "s", "t", "u", "v", "w", "x", "y", "z">>

\* Case folding of one character.
Lower(c) ==
    IF \E i \in 1..Len(Uppers) : Uppers[i] = c
    THEN Lowers[CHOOSE i \in 1..Len(Uppers) : Uppers[i] = c]
    ELSE c

LowerSeq(s) == [i \in 1..Len(s) |-> Lower(s[i])]

\* Index of the first character of s that is in set cs, 0 when there is none.
FirstIn(s, cs) ==
    IF \E i \in 1..Len(s) : s[i] \in cs
    THEN CHOOSE i \in 1..Len(s) : s[i] \in cs /\ \A j \in 1..(i - 1) : s[j] \notin cs
    ELSE 0

\* A digit part of a Python numeric literal: digits, with single underscores
\* allowed between two digits.
DigitsOK(s) ==
    /\ s # <<>>
    /\ \A i \in 1..Len(s) :
          \/ IsDigit(s[i])
          \/ /\ s[i] = "_"
             /\ 1 < i /\ i < Len(s)
             /\ IsDigit(s[i - 1]) /\ IsDigit(s[i + 1])

RECURSIVE NumVal(_)
NumVal(s) ==
    IF s = <<>> THEN 0
    ELSE NumVal(SubSeq(s, 1, Len(s) - 1)) * 10 + DigitVal(s[Len(s)])

\* Value of a digit part (underscores dropped).
DigitsVal(s) == NumVal(Remove(s, "_"))

RECURSIVE Pow10(_)
Pow10(n) == IF n <= 0 THEN 1 ELSE 10 * Pow10(n - 1)

-----------------------------------------------------------------------------
(* Float values: finite (v in units of 10^-5), inf (v = sign) and nan.     *)

\* Two decimals for the cents and three below them.
UnitDigits == 2 + 3

Unit == Pow10(UnitDigits)

\* Units in one cent.
Cent == Unit \div 100

Fin(v) == [t |-> "fin", v |-> v]
Inf(sign) == [t |-> "inf", v |-> sign]
NaN == [t |-> "nan", v |-> 0]

Sgn(n) == IF n > 0 THEN 1 ELSE IF n < 0 THEN -1 ELSE 0

Abs(n) == IF n < 0 THEN -n ELSE n

\* x + y
FAdd(x, y) ==
    CASE x.t = "nan" \/ y.t = "nan" -> NaN
      [] x.t = "inf" /\ y.t = "inf" -> IF x.v = y.v THEN x ELSE NaN
      [] x.t = "inf" -> x
      [] y.t = "inf" -> y
      [] OTHER -> Fin(x.v + y.v)

FNeg(x) == IF x.t = "nan" THEN x ELSE [t |-> x.t, v |-> -x.v]

\* x - y
FSub(x, y) == FAdd(x, FNeg(y))

\* Mutant of FMulInt: the count is forgotten (subtotal = price).
FMulInt_CountForgotten(x, n) == x

\* x * n, n an int
FMulInt(x, n) ==
    CASE x.t = "nan" -> NaN
      [] x.t = "inf" -> IF n = 0 THEN NaN ELSE Inf(x.v * Sgn(n))
      [] OTHER -> Fin(x.v * n)

\* x * (p / 100), p a whole percentage.  Split so that the product stays
\* within 32 bits; exact whenever x.v * p is a multiple of 100.
FMulPercent(x, p) ==
    CASE x.t = "nan" -> NaN
      [] x.t = "inf" -> IF p = 0 THEN NaN ELSE Inf(x.v * Sgn(p))
      [] OTHER -> Fin((x.v \div 100) * p + ((x.v % 100) * p) \div 100)

-----------------------------------------------------------------------------
(* Python conversions used by the calculator.  A conversion gives          *)
(* [ok |-> TRUE, val |-> ...] or [ok |-> FALSE, exc |-> exception class].  *)

Raise(cls) == [ok |-> FALSE, exc |-> cls, val |-> NaN]

\* The same for a conversion to int.
RaiseI(cls) == [ok |-> FALSE, exc |-> cls, val |-> 0]

Ok(val) == [ok |-> TRUE, exc |-> "", val |-> val]

\* A raw JSON value handed to the tool by the caller.
Absent == [t |-> "absent", v |-> 0, s |-> <<>>]      \* key not in the dict
None == [t |-> "none", v |-> 0, s |-> <<>>]          \* JSON null
IntV(n) == [t |-> "int", v |-> n, s |-> <<>>]        \* JSON integer
FloatV(u) == [t |-> "float", v |-> u, s |-> <<>>]    \* JSON number, u units
StrV(s) == [t |-> "str", v |-> 0, s |-> s]           \* JSON string

\* Rounding of n / d to the nearest integer (d > 0), halves away from zero.
RoundDiv(n, d) == Sgn(n) * ((2 * Abs(n) + d) \div (2 * d))

\* The digits of a literal, scaled: n * 10^shift units, rounded to the unit.
Scaled(n, shift) ==
    IF shift >= 0 THEN n * Pow10(shift) ELSE RoundDiv(n, Pow10(-shift))

\* A literal split in integer part ip, fraction fp and exponent digits edig
\* (sign esg; hasExp tells whether an exponent is written at all).
FloatOfFields(sg, ip, fp, hasExp, esg, edig) ==
    IF /\ ip = <<>> \/ DigitsOK(ip)
       /\ fp = <<>> \/ DigitsOK(fp)
       /\ ip # <<>> \/ fp # <<>>
       /\ ~hasExp \/ DigitsOK(edig)
    THEN Ok(Fin(sg * Scaled(DigitsVal(ip \o fp),
                            UnitDigits - Len(Remove(fp, "_"))
                              + (IF hasExp THEN esg * DigitsVal(edig) ELSE 0))))
    ELSE Raise("ValueError")

\* The part of s before position k (all of s when k = 0).
Before(s, k) == IF k = 0 THEN s ELSE SubSeq(s, 1, k - 1)

\* The part of s after position k (nothing when k = 0).
After(s, k) == IF k = 0 THEN <<>> ELSE SubSeq(s, k + 1, Len(s))

\* A leading sign of s, as a factor.
SignOf(s) == IF s # <<>> /\ Head(s) = "-" THEN -1 ELSE 1

\* s without its leading sign.
Unsigned(s) == IF s # <<>> /\ Head(s) \in {"+", "-"} THEN Tail(s) ELSE s

\* Mantissa and exponent of a decimal literal.
FloatOfMantExp(sg, mant, hasExp, expo) ==
    FloatOfFields(sg,
                  Before(mant, FirstIn(mant, {"."})),
                  After(mant, FirstIn(mant, {"."})),
                  hasExp, SignOf(expo), Unsigned(expo))

\* An unsigned literal: nan, inf, infinity in any case, or a decimal literal.
FloatOfBody(sg, body) ==
    CASE LowerSeq(body) = <<"n", "a", "n">> -> Ok(NaN)
      [] LowerSeq(body) \in {<<"i", "n", "f">>,
                             <<"i", "n", "f", "i", "n", "i", "t", "y">>} -> Ok(Inf(sg))
      [] OTHER -> FloatOfMantExp(sg,
                                 Before(body, FirstIn(body, {"e", "E"})),
                                 FirstIn(body, {"e", "E"}) # 0,
                                 After(body, FirstIn(body, {"e", "E"})))

\* A literal without blanks around it.
FloatOfStripped(s) == FloatOfBody(SignOf(s), Unsigned(s))

\* float(s) for a str.
FloatOfStr(s) == FloatOfStripped(Strip(s))

\* float(x) for a raw value.
PyFloat(x) ==
    CASE x.t = "str" -> FloatOfStr(x.s)
      [] x.t = "int" -> Ok(Fin(x.v * Unit))
      [] x.t = "float" -> Ok(Fin(x.v))
      [] OTHER -> Raise("TypeError")

\* An integer literal without blanks around it.
IntOfStripped(s) ==
    IF DigitsOK(Unsigned(s)) THEN Ok(SignOf(s) * DigitsVal(Unsigned(s)))
    ELSE RaiseI("ValueError")

\* int(s) for a str.
IntOfStr(s) == IntOfStripped(Strip(s))

\* int(x) for a raw value: a float is truncated towards zero.
PyInt(x) ==
    CASE x.t = "str" -> IntOfStr(x.s)
      [] x.t = "int" -> Ok(x.v)
      [] x.t = "float" -> Ok(Sgn(x.v) * (Abs(x.v) \div Unit))
      [] OTHER -> RaiseI("TypeError")

\* dict.get(key, default)
Get(x, default) == IF x.t = "absent" THEN default ELSE x

-----------------------------------------------------------------------------
(* PriceCalculatorTool._arun                                               *)

\* "{x:.2f}": x rounded to cents.  up is the direction a double lying on a
\* decimal tie rounds to (it depends on the binary representation of x).
\* The text is represented by the number of cents, or by inf / nan.
Fmt2(x, up) ==
    IF x.t # "fin" THEN x
    ELSE LET q == x.v \div Cent
             r == x.v % Cent
         IN  Fin(IF 2 * r > Cent \/ (2 * r = Cent /\ up) THEN q + 1 ELSE q)

\* The default of item.get("name", ...)
DefaultName == StrV(<<"Producto sin nombre">>)

\* The text returned by the except branch.
CalcError(exc) ==
    [kind |-> "text", text |-> <<"Error calculando precios: ", exc>>]

\* raw_price once the "$" and "," are replaced away and the blanks stripped.
NormalizePrice(raw_price) ==
    IF raw_price.t = "str"
    THEN StrV(Strip(Remove(Remove(raw_price.s, "$"), ",")))
    ELSE raw_price

\* The entry appended to breakdown and the item's subtotal, or the exception
\* of float() or of int().
CalcEntry(name, price, quantity, ties) ==
    IF ~price.ok THEN [ok |-> FALSE, exc |-> price.exc]
    ELSE IF ~quantity.ok THEN [ok |-> FALSE, exc |-> quantity.exc]
    ELSE [ok |-> TRUE,
          subtotal |-> FMulInt(price.val, quantity.val),
          entry |-> [product |-> name,
                     price |-> Fmt2(price.val, ties.sums),
                     quantity |-> quantity.val,
                     subtotal |-> Fmt2(FMulInt(price.val, quantity.val), ties.sums)]]

\* One turn of the for loop.
CalcItem(item, ties) ==
    CalcEntry(Get(item.name, DefaultName),
              PyFloat(NormalizePrice(Get(item.price, IntV(0)))),
              PyInt(Get(item.quantity, IntV(1))),
              ties)

\* The for loop over products: total and breakdown, or the first exception.
\* its is the loop body's outcome for each item.
CalcLoop(products, its) ==
    LET sum[i \in 0..Len(products)] ==
            IF i = 0 THEN Fin(0) ELSE FAdd(sum[i - 1], its[i].subtotal)
    IN  IF \E i \in 1..Len(products) : ~its[i].ok
        THEN [ok |-> FALSE,
              exc |-> its[CHOOSE i \in 1..Len(products) :
                             ~its[i].ok /\ \A j \in 1..(i - 1) : its[j].ok].exc]
        ELSE [ok |-> TRUE, total |-> sum[Len(products)],
              breakdown |-> [i \in 1..Len(products) |-> its[i].entry]]

\* Mutant of ApplyDiscount: the amount is computed but not taken off the total.
ApplyDiscount_TotalKept(total, discount_percent) ==
    IF discount_percent > 0
    THEN <<FMulPercent(total, discount_percent), total>>
    ELSE <<Fin(0), total>>

\* The discount step: <<discount_amount, total>> after it.
ApplyDiscount(total, discount_percent) ==
    IF discount_percent > 0
    THEN LET discount_amount == FMulPercent(total, discount_percent)
         IN  <<discount_amount, FSub(total, discount_amount)>>
    ELSE <<Fin(0), total>>

\* The result dict, from the breakdown and <<discount_amount, total>>.
CalcResult(breakdown, disc, discount_percent, ties) ==
    [kind |-> "json",
     breakdown |-> breakdown,
     subtotal |-> Fmt2(FAdd(disc[2], disc[1]), ties.sums),
     discount |-> IF discount_percent > 0 THEN discount_percent ELSE 0,
     discount_amount |-> Fmt2(disc[1], ties.discount),
     total |-> Fmt2(disc[2], ties.total)]

\* What follows the for loop: the except branch, or the discount and the result.
CalcFinish(loop, discount_percent, ties) ==
    IF ~loop.ok THEN CalcError(loop.exc)
    ELSE CalcResult(loop.breakdown, ApplyDiscount(loop.total, discount_percent),
                    discount_percent, ties)

\* The body of _arun: the JSON result, or the error text.
PriceCalculatorArun(products, discount_percent, ties) ==
    CalcFinish(CalcLoop(products,
                        [i \in 1..Len(products) |-> CalcItem(products[i], ties)]),
               discount_percent, ties)

-----------------------------------------------------------------------------
(* Inputs of the calculator.                                               *)

MaxItems == 2

GoPro == StrV(<<"GoPro Hero 11">>)

Prices ==
    { StrV(<<"$", "3", "5", "0", ".", "0", "0">>),
      StrV(<<"$", " ", "1", ",", "2", "3", "4", ".", "5", "6">>),
      StrV(<<"a", "b", "c">>),
      StrV(<<"n", "a", "n">>),
      StrV(<<"$", "i", "n", "f">>),
      FloatV(Cent),
      FloatV(Cent \div 2),
      Absent }

Quantities ==
    { IntV(5), IntV(1), IntV(0), IntV(-2),
      FloatV(27 * (Unit \div 10)),
      StrV(<<"2">>),
      StrV(<<"2", ".", "5">>),
      None,
      Absent }

GoProPrice == StrV(<<"$", "3", "5", "0", ".", "0", "0">>)

\* Every price with one unit, every quantity of one product, and an item
\* that gives neither name nor quantity.
Items ==
    {[name |-> GoPro, price |-> p, quantity |-> IntV(1)] : p \in Prices}
      \cup {[name |-> GoPro, price |-> GoProPrice, quantity |-> q] : q \in Quantities}
      \cup {[name |-> Absent, price |-> FloatV(Cent), quantity |-> Absent]}

\* The items that lists of several items are made of.
ListItems ==
    { [name |-> GoPro, price |-> GoProPrice, quantity |-> IntV(5)],
      [name |-> GoPro,
       price |-> StrV(<<"$", " ", "1", ",", "2", "3", "4", ".", "5", "6">>),
       quantity |-> IntV(1)],
      [name |-> Absent, price |-> FloatV(Cent), quantity |-> Absent],
      [name |-> GoPro, price |-> FloatV(Cent \div 2), quantity |-> IntV(1)],
      [name |-> GoPro, price |-> StrV(<<"a", "b", "c">>), quantity |-> IntV(1)],
      [name |-> GoPro, price |-> StrV(<<"n", "a", "n">>), quantity |-> IntV(1)],
      [name |-> GoPro, price |-> GoProPrice, quantity |-> IntV(-2)],
      [name |-> GoPro, price |-> GoProPrice, quantity |-> FloatV(27 * (Unit \div 10))] }

RECURSIVE SeqsUpTo(_, _)
SeqsUpTo(S, n) ==
    IF n = 0 THEN {<<>>}
    ELSE LET shorter == SeqsUpTo(S, n - 1)
         IN  shorter \cup {Append(q, x) : q \in shorter, x \in S}

\* The lists of products given to the calculator.
ProductLists == SeqsUpTo(Items, 1) \cup SeqsUpTo(ListItems, MaxItems)

Discounts == {-10, 0, 10, 50, 100, 150}

\* Tie directions: of the amounts summed (per item and overall), of the
\* discount amount and of the total.
Ties == [sums : BOOLEAN, discount : BOOLEAN, total : BOOLEAN]

NoOut == [kind |-> "none"]

CalcInit ==
    /\ calcPc = "ready"
    /\ calcIn \in [products : ProductLists, discount_percent : Discounts]
    /\ calcOut = NoOut

\* The calculator is not called.
CalcIdle ==
    /\ calcPc = "idle"
    /\ calcIn = [products |-> <<>>, discount_percent |-> 0]
    /\ calcOut = NoOut

\* One call of PriceCalculatorTool._arun, start to return.
PriceCalculatorTool_arun ==
    /\ calcPc = "ready"
    /\ \E ties \in Ties :
          calcOut' = PriceCalculatorArun(calcIn.products, calcIn.discount_percent, ties)
    /\ calcPc' = "returned"
    /\ UNCHANGED <<calcIn, searchVars, storeVars, chatVars, healthVars, botVars>>

-----------------------------------------------------------------------------
(* What the specification calls a valid calculator input, and the exact    *)
(* amounts it stands for.  Used by the properties only.                    *)

\* The characters left once currency symbol, thousands separators and blanks
\* are taken away.
Bare(s) == Remove(Remove(Remove(s, "$"), ","), " ")

AllDigits(s) == \A i \in 1..Len(s) : IsDigit(s[i])

\* A decimal number: digits with at most one point among them.
IsDecimalText(s) ==
    LET b == Bare(s)
        u == IF b # <<>> /\ Head(b) \in {"+", "-"} THEN Tail(b) ELSE b
        dot == FirstIn(u, {"."})
        ip == IF dot = 0 THEN u ELSE SubSeq(u, 1, dot - 1)
        fp == IF dot = 0 THEN <<>> ELSE SubSeq(u, dot + 1, Len(u))
    IN  AllDigits(ip) /\ AllDigits(fp) /\ Len(ip) + Len(fp) > 0

\* The value, in units, of an unsigned decimal text.
DecimalValue(s) ==
    LET b == Bare(s)
        dot == FirstIn(b, {"."})
        ip == IF dot = 0 THEN b ELSE SubSeq(b, 1, dot - 1)
        fp == IF dot = 0 THEN <<>> ELSE SubSeq(b, dot + 1, Len(b))
    IN  NumVal(ip) * Unit + NumVal(fp) * Pow10(UnitDigits - Len(fp))

NonNegativePrice(p) ==
    \/ p.t \in {"int", "float"} /\ p.v >= 0
    \/ p.t = "str" /\ IsDecimalText(p.s) /\ Bare(p.s)[1] # "-"

ExactPrice(p) ==
    CASE p.t = "int" -> p.v * Unit
      [] p.t = "float" -> p.v
      [] OTHER -> DecimalValue(p.s)

PositiveQuantity(q) == q.t = "absent" \/ (q.t = "int" /\ q.v > 0)

ExactQuantity(q) == IF q.t = "absent" THEN 1 ELSE q.v

ValidItem(item) == NonNegativePrice(item.price) /\ PositiveQuantity(item.quantity)

ExactItemSubtotal(item) == ExactPrice(item.price) * ExactQuantity(item.quantity)

RECURSIVE ExactSubtotal(_)
ExactSubtotal(products) ==
    IF products = <<>> THEN 0
    ELSE ExactItemSubtotal(Head(products)) + ExactSubtotal(Tail(products))

\* subtotal * discount_percent / 100 (every exact subtotal of the model is a
\* multiple of 100 units).
ExactDiscount(products, percent) == (ExactSubtotal(products) \div 100) * percent

ValidProducts(in) == \A i \in 1..Len(in.products) : ValidItem(in.products[i])

ValidInput(in) ==
    /\ ValidProducts(in)
    /\ in.discount_percent >= 0 /\ in.discount_percent <= 100

\* The call returned a breakdown for a valid input.
ReturnedValid == calcPc = "returned" /\ ValidInput(calcIn) /\ calcOut.kind = "json"

\* The formatted amount c is x rounded to two decimals.
Rounds(c, x) == c.t = "fin" /\ 2 * Abs(c.v * Cent - x) <= Cent

\* The call ended in a failure: an error description and no breakdown.
Failed(out) == out.kind = "text"

-----------------------------------------------------------------------------
(* Properties of the price calculator.                                     *)

\* C4 (as stated): for items with non-negative prices and positive integer
\* quantities and a discount in [0,100], the returned breakdown satisfies
\* total + discount_amount = subtotal and discount_amount =
\* subtotal * discount_percent / 100, subtotal being the sum of the per-item
\* subtotals before discount.
C4_ReturnedSumsExactly ==
    ReturnedValid =>
        /\ calcOut.total.v + calcOut.discount_amount.v = calcOut.subtotal.v
        /\ calcOut.subtotal.v * Cent = ExactSubtotal(calcIn.products)
        /\ calcOut.discount_amount.v * Cent
             = ExactDiscount(calcIn.products, calcIn.discount_percent)

\* C4 (amended): the returned subtotal, discount_amount and total are the
\* exact sum S of the per-item subtotals, S * discount_percent / 100 and
\* their difference, each rounded to two decimals at output, so that
\* total + discount_amount is within one cent of subtotal.
C4_ReturnedSumsWithinOneCent ==
    ReturnedValid =>
        LET S == ExactSubtotal(calcIn.products)
            D == ExactDiscount(calcIn.products, calcIn.discount_percent)
        IN  /\ Rounds(calcOut.subtotal, S)
            /\ Rounds(calcOut.discount_amount, D)
            /\ Rounds(calcOut.total, S - D)
            /\ Abs(calcOut.total.v + calcOut.discount_amount.v
                     - calcOut.subtotal.v) <= 1

\* C4 witness: a breakdown was returned for two valid items with a discount
\* whose amount is not a whole number of cents.
C4_Witness ==
    /\ ReturnedValid
    /\ Len(calcIn.products) = 2
    /\ calcIn.discount_percent > 0
    /\ ExactDiscount(calcIn.products, calcIn.discount_percent) % Cent # 0

\* C5 (as stated): a discount_percent below 0 or above 100 makes the call
\* fail with InvalidDiscount; no breakdown is returned.
C5_DiscountOutOfRangeRejected ==
    (/\ calcPc = "returned"
     /\ (calcIn.discount_percent < 0 \/ calcIn.discount_percent > 100))
        => Failed(calcOut)

\* C6 (as stated): an absent quantity is taken as 1, and a negative or
\* non-integer quantity makes the call fail with InvalidQuantity, so that no
\* returned breakdown holds a negative or a truncated quantity.
BadQuantity(q) ==
    \/ q.t = "int" /\ q.v < 0
    \/ q.t = "float" /\ (q.v < 0 \/ q.v % Unit # 0)
    \/ q.t = "str" /\ ~AllDigits(Bare(q.s))

C6_QuantityDefaultedOrRejected ==
    calcPc = "returned" =>
        /\ (\E i \in 1..Len(calcIn.products) :
               BadQuantity(calcIn.products[i].quantity)) => Failed(calcOut)
        /\ calcOut.kind = "json" =>
               \A i \in 1..Len(calcIn.products) :
                   /\ calcIn.products[i].quantity.t = "absent"
                        => calcOut.breakdown[i].quantity = 1
                   /\ calcOut.breakdown[i].quantity >= 0

\* C7 (as stated): when some item's price, once the currency symbol and the
\* thousands separators are stripped, is not numeric, the call fails (with
\* InvalidPriceFormat): the failure comes back as tool-result text and no
\* breakdown is returned, not even for the items before the malformed one.
C7_MalformedPriceRejected ==
    (/\ calcPc = "returned"
     /\ \E i \in 1..Len(calcIn.products) :
           /\ calcIn.products[i].price.t = "str"
           /\ ~IsDecimalText(calcIn.products[i].price.s))
        => Failed(calcOut)

\* The example of the specification: one GoPro Hero 11 at $350.00, five of
\* them, 10 % off.
ExampleIn ==
    [products |-> <<[name |-> GoPro,
                     price |-> StrV(<<"$", "3", "5", "0", ".", "0", "0">>),
                     quantity |-> IntV(5)]>>,
     discount_percent |-> 10]

\* The entries of the breakdown are the input items, in input order.
EntriesFollowInput ==
    /\ Len(calcOut.breakdown) = Len(calcIn.products)
    /\ \A i \in 1..Len(calcIn.products) :
          LET item == calcIn.products[i]
              e == calcOut.breakdown[i]
          IN  /\ e.product = Get(item.name, DefaultName)
              /\ e.quantity = ExactQuantity(item.quantity)

\* C8 (as stated): for a valid input the breakdown has one entry per item in
\* input order, each with subtotal = unit_price * quantity, the overall
\* subtotal is the sum of the per-item subtotals, discount_amount =
\* subtotal * discount_percent / 100 and total = subtotal - discount_amount.
C8_BreakdownExact ==
    ReturnedValid =>
        /\ EntriesFollowInput
        /\ \A i \in 1..Len(calcOut.breakdown) :
              LET e == calcOut.breakdown[i]
              IN  e.subtotal.v = e.price.v * e.quantity
        /\ calcOut.subtotal.v * Cent = ExactSubtotal(calcIn.products)
        /\ calcOut.discount_amount.v * 100
             = calcOut.subtotal.v * calcIn.discount_percent
        /\ calcOut.total.v = calcOut.subtotal.v - calcOut.discount_amount.v

\* C8 (amended): for a valid input the breakdown has one entry per item in
\* input order; each entry's price and subtotal, the overall subtotal, the
\* discount_amount and the total are unit_price, unit_price * quantity, the
\* sum S of those, S * discount_percent / 100 and S less that, each rounded
\* to two decimals at output; a discount of 0 gives discount_amount 0 and
\* "0%"; the example gives 1750.00, 175.00 and 1575.00.
C8_BreakdownRounded ==
    ReturnedValid =>
        LET S == ExactSubtotal(calcIn.products)
            D == ExactDiscount(calcIn.products, calcIn.discount_percent)
        IN  /\ EntriesFollowInput
            /\ \A i \in 1..Len(calcIn.products) :
                  LET item == calcIn.products[i]
                      e == calcOut.breakdown[i]
                  IN  /\ Rounds(e.price, ExactPrice(item.price))
                      /\ Rounds(e.subtotal, ExactItemSubtotal(item))
            /\ Rounds(calcOut.subtotal, S)
            /\ Rounds(calcOut.discount_amount, D)
            /\ Rounds(calcOut.total, S - D)
            /\ calcOut.discount = calcIn.discount_percent
            /\ calcIn.discount_percent = 0 => calcOut.discount_amount.v = 0
            /\ calcIn = ExampleIn =>
                  /\ calcOut.subtotal.v = 175000
                  /\ calcOut.discount_amount.v = 17500
                  /\ calcOut.total.v = 157500

\* C8 witness: the example of the specification has been computed.
C8_Witness == ReturnedValid /\ calcIn = ExampleIn /\ calcOut.total.v = 157500

-----------------------------------------------------------------------------
(* The catalog store as ProductSearchTool uses it:                         *)
(* db.products.find({"name": {"$regex": query, "$options": "i"}})          *)
(*            .limit(max_results), then cursor.to_list(max_results).       *)
(* Patterns are made of literal characters, "." (any character) and "("    *)
(* (an unclosed group: the store rejects the pattern).                     *)

\* The pattern compiles.
ValidRegex(query) == \A i \in 1..Len(query) : query[i] # "("

\* The pattern matches name at position i, ignoring case.
RegexMatchesAt(query, name, i) ==
    /\ i + Len(query) - 1 <= Len(name)
    /\ \A j \in 1..Len(query) :
          query[j] = "." \/ Lower(query[j]) = Lower(name[i + j - 1])

\* {"name": {"$regex": query, "$options": "i"}}
RegexMatches(query, doc) ==
    /\ "name" \in doc.keys
    /\ \E i \in 1..(Len(doc.name) + 1) : RegexMatchesAt(query, doc.name, i)

\* The first n elements of a sequence.
Take(seq, n) == SubSeq(seq, 1, IF n < Len(seq) THEN n ELSE Len(seq))

\* find(...).limit(n) + to_list(n), n > 0: the first n matching documents in
\* store order, or the failure of the store.
StoreFind(docs, up, query, n) ==
    IF ~up THEN [ok |-> FALSE, exc |-> "ServerSelectionTimeoutError", docs |-> <<>>]
    ELSE IF ~ValidRegex(query) THEN [ok |-> FALSE, exc |-> "OperationFailure", docs |-> <<>>]
    ELSE [ok |-> TRUE, exc |-> "",
          docs |-> Take(SelectSeq(docs, LAMBDA d : RegexMatches(query, d)), n)]

-----------------------------------------------------------------------------
(* ProductSearchTool._arun                                                 *)

\* The default of the max_results parameter.
DefaultMaxResults == 5

\* The text returned by the except branch.
SearchError(exc) ==
    [kind |-> "text", text |-> <<"Error buscando productos: ", exc>>, results |-> <<>>]

\* The text returned when the store found nothing.
NoResults(query) ==
    [kind |-> "text", text |-> <<"No se encontraron productos para '", query, "'">>,
     results |-> <<>>]

\* One entry of results; product[key] raises KeyError when the key is missing.
FormatProduct(product) ==
    [name |-> product.name,
     price |-> <<"$", product.unit_price>>,
     stock |-> product.stock]

\* Mutant of ProductSearchArun: no test for an empty result, no except branch.
ProductSearchArun_Unguarded(docs, up, query, max_results) ==
    LET found == StoreFind(docs, up, query, max_results)
    IN  IF ~found.ok THEN [kind |-> "raise", text |-> <<found.exc>>, results |-> <<>>]
        ELSE [kind |-> "json", text |-> <<"[">>,
              results |-> [i \in 1..Len(found.docs) |-> FormatProduct(found.docs[i])]]

\* The body of _arun.
ProductSearchArun(docs, up, query, max_results) ==
    LET found == StoreFind(docs, up, query, max_results)
        products == found.docs
    IN  IF ~found.ok THEN SearchError(found.exc)
        ELSE IF products = <<>> THEN NoResults(query)
        ELSE IF \E i \in 1..Len(products) :
                    ~({"name", "unit_price", "stock"} \subseteq products[i].keys)
        THEN SearchError("KeyError")
        ELSE [kind |-> "json", text |-> <<"[">>,
              results |-> [i \in 1..Len(products) |-> FormatProduct(products[i])]]

-----------------------------------------------------------------------------
(* Inputs of the product search.                                           *)

\* Number of documents of the large catalog.
MaxCatalog == 52

Doc(name, cents, stock) ==
    [name |-> name, unit_price |-> cents, stock |-> stock,
     keys |-> {"name", "unit_price", "stock"}]

SmallCatalog ==
    << Doc(<<"G", "o", "P", "r", "o">>, 35000, 4),
       Doc(<<"M", "o", "u", "s", "e">>, 1500, 0),
       Doc(<<"g", "o", "p", "r", "o", " ", "2">>, 42000, 7),
       Doc(<<"a", "b", "c">>, 100, 1) >>

\* A catalog with a document that lacks its stock.
BrokenCatalog ==
    << Doc(<<"G", "o", "P", "r", "o">>, 35000, 4),
       [name |-> <<"g", "o", "x">>, unit_price |-> 100, stock |-> 0,
        keys |-> {"name", "unit_price"}] >>

LargeCatalog == [i \in 1..MaxCatalog |-> Doc(<<"c", "a", "m">>, 100 * i, i)]

Catalogs == {<<>>, SmallCatalog, BrokenCatalog, LargeCatalog}

Queries ==
    { <<"g", "o", "p", "r", "o">>,
      <<"M", "O", "U">>,
      <<"C", "a", "m">>,
      <<"z", "z">>,
      <<"a", ".", "c">>,
      <<"g", "o", "(">>,
      <<>> }

\* max_results as the caller gives it: left out, or a positive count.
MaxResultsGiven == {Absent, IntV(1), IntV(2), IntV(5), IntV(51), IntV(60)}

SearchInit ==
    /\ searchPc = "ready"
    /\ searchIn \in [query : Queries, max_results : MaxResultsGiven]
    /\ searchOut = NoOut

\* Any catalog, the store answering or not.
StoreInit == catalog \in Catalogs /\ storeUp \in BOOLEAN

\* The product search is not called.
SearchIdle ==
    /\ searchPc = "idle"
    /\ searchIn = [query |-> <<>>, max_results |-> Absent]
    /\ searchOut = NoOut

\* One call of ProductSearchTool._arun, start to return.
ProductSearchTool_arun ==
    /\ searchPc = "ready"
    /\ searchOut' = ProductSearchArun(catalog, storeUp, searchIn.query,
                                      Get(searchIn.max_results, IntV(DefaultMaxResults)).v)
    /\ searchPc' = "returned"
    /\ UNCHANGED <<searchIn, storeVars, calcVars, chatVars, healthVars, botVars>>

-----------------------------------------------------------------------------
(* chat_with_ai, the handler of POST /chat.                                *)

SystemPrompt == <<"Eres un asistente util especializado en tecnologia y productos electronicos.">>

\* settings.azure_openai_deployment
Deployment == "gpt-4.1"

SystemMessage(content) == [role |-> "system", content |-> content]

HumanMessage(content) == [role |-> "human", content |-> content]

\* messages.insert(1, x)
InsertSecond(seq, x) == <<Head(seq), x>> \o Tail(seq)

\* The messages list built from the request.
BuildMessages(req) ==
    LET base == <<SystemMessage(SystemPrompt), HumanMessage(<<req.message>>)>>
    IN  IF req.context # ""
        THEN InsertSecond(base, SystemMessage(<<"Contexto adicional: ", req.context>>))
        ELSE base

\* What the language model does on its n-th call, the last reply repeating.
ReplyAt(sc, n) == sc[IF n < Len(sc) THEN n ELSE Len(sc)]

\* One request, from the call of the handler to its response: the messages
\* are built, the model is invoked once, and the reply's content is the
\* response; an exception of the model call becomes an HTTP 500.
chat_with_ai ==
    /\ chatPc = "AWAITING_MODEL"
    /\ messages' = BuildMessages(request)
    /\ modelCalls' = modelCalls + 1
    /\ LET response == ReplyAt(script, modelCalls + 1)
       IN  IF response.variant = "Unavailable"
           THEN /\ chatPc' = "FAILED"
                /\ outcome' = [kind |-> "HTTPException", status |-> 500,
                               text |-> <<"Error en chat: ", response.content>>]
           ELSE /\ chatPc' = "DONE"
                /\ outcome' = [kind |-> "ChatResponse", status |-> 200,
                               text |-> <<response.content>>, model |-> Deployment]
    /\ UNCHANGED <<request, script, calcVars, searchVars, storeVars, healthVars, botVars>>

-----------------------------------------------------------------------------
(* Inputs of the chat handler: requests, and scripted language models.     *)

MaxScript == 3

GoProQuery == <<"g", "o", "p", "r", "o">>

NoArgs == [products |-> <<>>, discount_percent |-> 0]

FinalAnswer(text) ==
    [variant |-> "FinalAnswer", content |-> text, tool |-> "",
     calc |-> NoArgs, query |-> <<>>]

\* A reply asking for one tool call; its text content is empty.
CalcRequest(args) ==
    [variant |-> "ToolCallRequest", content |-> "", tool |-> "price_calculator",
     calc |-> args, query |-> <<>>]

SearchRequest(query) ==
    [variant |-> "ToolCallRequest", content |-> "", tool |-> "product_search",
     calc |-> NoArgs, query |-> query]

\* The model call raises.
Unavailable ==
    [variant |-> "Unavailable", content |-> "upstream unavailable", tool |-> "",
     calc |-> NoArgs, query |-> <<>>]

\* A calculator call that cannot be computed: the price is not a number.
BadPriceIn ==
    [products |-> <<[name |-> GoPro, price |-> StrV(<<"a", "b", "c">>),
                     quantity |-> IntV(1)]>>,
     discount_percent |-> 0]

Replies ==
    { FinalAnswer("El total es 1575.00"),
      CalcRequest(ExampleIn),
      CalcRequest(BadPriceIn),
      SearchRequest(GoProQuery),
      Unavailable }

Requests == [message : {"Cuanto cuestan 5 GoPro Hero 11?"}, context : {"", "10% de descuento"}]

ChatInit ==
    /\ chatPc = "AWAITING_MODEL"
    /\ request \in Requests
    /\ script \in (SeqsUpTo(Replies, MaxScript) \ {<<>>})
    /\ messages = <<>>
    /\ modelCalls = 0
    /\ outcome = NoOut

\* No request is being served.
ChatIdle ==
    /\ chatPc = "idle"
    /\ request = [message |-> "", context |-> ""]
    /\ script = <<Unavailable>>
    /\ messages = <<>>
    /\ modelCalls = 0
    /\ outcome = NoOut

\* The catalog of the running service, the store answering or not.
StoreServing == catalog = SmallCatalog /\ storeUp \in BOOLEAN

\* The catalog of the running service, the store answering.
StoreFixed == catalog = SmallCatalog /\ storeUp = TRUE

-----------------------------------------------------------------------------
(* health_check, the handler of GET /health.                               *)

\* The first try block: db.products.count_documents({}) raises when the
\* store does not answer, whatever the catalog holds.
MongoStatus(up) == IF up THEN "healthy" ELSE "unhealthy"

\* The second try block: llm.ainvoke([HumanMessage("Hello")]) raises or
\* gives a reply, whose content is not looked at.
LlmStatus(reply) == IF reply.variant = "Unavailable" THEN "unhealthy" ELSE "healthy"

\* Mutant of OverallStatus: one healthy service is enough.
OverallStatus_EitherSuffices(mongo_status, llm_status) ==
    IF mongo_status = "healthy" \/ llm_status = "healthy" THEN "healthy" ELSE "unhealthy"

\* overall_status
OverallStatus(mongo_status, llm_status) ==
    IF mongo_status = "healthy" /\ llm_status = "healthy" THEN "healthy" ELSE "unhealthy"

HealthResponse(status, services) ==
    [kind |-> "HealthResponse", status |-> status, services |-> services]

\* One request, from the call of the handler to its response.
health_check ==
    /\ healthPc = "ready"
    /\ LET mongo_status == MongoStatus(storeUp)
           llm_status == LlmStatus(probe)
       IN  healthOut' = HealthResponse(OverallStatus(mongo_status, llm_status),
                                       [mongodb |-> mongo_status,
                                        azure_openai |-> llm_status])
    /\ healthPc' = "returned"
    /\ UNCHANGED <<probe, calcVars, searchVars, storeVars, chatVars, botVars>>

\* GET /health arrives; the language model answers it in any of its ways.
HealthInit ==
    /\ healthPc = "ready"
    /\ probe \in Replies
    /\ healthOut = NoOut

\* /health is not requested.
HealthIdle ==
    /\ healthPc = "idle"
    /\ probe = Unavailable
    /\ healthOut = NoOut

-----------------------------------------------------------------------------
(* The Telegram bot: call_llm_api and handle_message.                      *)

\* The default of data.get("response", ...).
NoResponseText == StrV(<<"No pude generar una respuesta.">>)

\* The text replied by the except branch of handle_message (its letters
\* without accents, its emoji left out).
Apology ==
    StrV(<<"Estoy teniendo un problema hablando con el servicio de IA. ",
           "Proba de nuevo mas tarde.">>)

\* resp.raise_for_status() returns for a 2xx status and raises otherwise.
IsSuccess(status) == 200 <= status /\ status < 300

\* call_llm_api: the POST, the status test, the decoding of the body and the
\* reading of its "response" key; svc is what the POST comes to.
CallLlmApi(svc) ==
    IF svc.kind # "response" THEN [ok |-> FALSE, exc |-> svc.kind, text |-> None]
    ELSE IF ~IsSuccess(svc.status)
    THEN [ok |-> FALSE, exc |-> "HTTPStatusError", text |-> None]
    ELSE IF ~svc.json THEN [ok |-> FALSE, exc |-> "JSONDecodeError", text |-> None]
    ELSE IF ~svc.object THEN [ok |-> FALSE, exc |-> "AttributeError", text |-> None]
    ELSE [ok |-> TRUE, exc |-> "", text |-> Get(svc.response, NoResponseText)]

\* bool(update.message.text)
Truthy(text) == text.t = "str" /\ text.s # <<>>

\* The guard of handle_message: no message, or no text in it.
Ignored(upd) == ~upd.hasMessage \/ ~Truthy(upd.text)

\* Mutant of HandleMessage: the except branch does not return.
HandleMessage_ExceptFallsThrough(upd, svc) ==
    IF Ignored(upd) THEN [posts |-> <<>>, replies |-> <<>>]
    ELSE LET respuesta == CallLlmApi(svc)
         IN  [posts |-> <<upd.text>>,
              replies |-> IF respuesta.ok THEN <<respuesta.text>>
                          ELSE <<Apology, respuesta.text>>]

\* The body of handle_message: what it posts and what it replies.
HandleMessage(upd, svc) ==
    IF Ignored(upd) THEN [posts |-> <<>>, replies |-> <<>>]
    ELSE LET respuesta == CallLlmApi(svc)
         IN  [posts |-> <<upd.text>>,
              replies |-> IF respuesta.ok THEN <<respuesta.text>> ELSE <<Apology>>]

\* One update, from the call of the handler to its return.
handle_message ==
    /\ botPc = "ready"
    /\ posts' = posts \o HandleMessage(update, service).posts
    /\ replies' = replies \o HandleMessage(update, service).replies
    /\ botPc' = "returned"
    /\ UNCHANGED <<update, service, calcVars, searchVars, storeVars, chatVars, healthVars>>

\* Updates: without a message, with a message without text (a photo), with
\* an empty text, with a text.
Updates ==
    {[hasMessage |-> FALSE, text |-> None]}
      \cup [hasMessage : {TRUE},
            text : {None, StrV(<<>>), StrV(<<"hola">>),
                    StrV(<<"Cuanto cuestan 5 GoPro Hero 11?">>)}]

\* The POST does not get a response.
NoHttpResponse(cls) ==
    [kind |-> cls, status |-> 0, json |-> FALSE, object |-> FALSE, response |-> Absent]

\* The POST gets a response with this status and body.
HttpResponse(status, json, object, response) ==
    [kind |-> "response", status |-> status, json |-> json, object |-> object,
     response |-> response]

\* What the POST to LLM_API_URL can come to: /chat answering with a
\* ChatResponse or with an error, another body, or no response at all.
ServiceOutcomes ==
    { NoHttpResponse("ConnectError"),
      NoHttpResponse("ReadTimeout"),
      HttpResponse(200, TRUE, TRUE, StrV(<<"El total es 1575.00">>)),
      HttpResponse(200, TRUE, TRUE, StrV(<<>>)),
      HttpResponse(200, TRUE, TRUE, Absent),
      HttpResponse(200, TRUE, FALSE, Absent),
      HttpResponse(200, FALSE, FALSE, Absent),
      HttpResponse(302, FALSE, FALSE, Absent),
      HttpResponse(422, TRUE, TRUE, Absent),
      HttpResponse(500, TRUE, TRUE, Absent),
      HttpResponse(500, TRUE, TRUE, StrV(<<"Error en chat">>)) }

BotInit ==
    /\ botPc = "ready"
    /\ update \in Updates
    /\ service \in ServiceOutcomes
    /\ posts = <<>>
    /\ replies = <<>>

\* No update is being handled.
BotIdle ==
    /\ botPc = "idle"
    /\ update = [hasMessage |-> FALSE, text |-> None]
    /\ service = NoHttpResponse("ConnectError")
    /\ posts = <<>>
    /\ replies = <<>>

-----------------------------------------------------------------------------
(* Specifications: one per component, the others idle.                     *)

\* A call of the price calculator.
InitCalc == CalcInit /\ SearchIdle /\ StoreFixed /\ ChatIdle /\ HealthIdle /\ BotIdle

SpecCalc == InitCalc /\ [][PriceCalculatorTool_arun]_vars

\* A call of the product search.
InitSearch == SearchInit /\ StoreInit /\ CalcIdle /\ ChatIdle /\ HealthIdle /\ BotIdle

SpecSearch == InitSearch /\ [][ProductSearchTool_arun]_vars

\* A request to /chat.
InitChat == ChatInit /\ StoreServing /\ CalcIdle /\ SearchIdle /\ HealthIdle /\ BotIdle

SpecChat == InitChat /\ [][chat_with_ai]_vars

\* The health endpoint and the Telegram bot, each serving one call.
InitFrontends ==
    HealthInit /\ BotInit /\ StoreInit /\ CalcIdle /\ SearchIdle /\ ChatIdle

NextFrontends == health_check \/ handle_message

SpecFrontends == InitFrontends /\ [][NextFrontends]_vars

-----------------------------------------------------------------------------
(* Properties of the product search.                                       *)

\* The count the caller asked for.
RequestedMax == Get(searchIn.max_results, IntV(DefaultMaxResults)).v

\* The store cannot answer the query.
StoreFails == ~storeUp \/ ~ValidRegex(searchIn.query)

\* The store answers, and no document matches.
StoreFindsNothing ==
    /\ ~StoreFails
    /\ \A i \in 1..Len(catalog) : ~RegexMatches(searchIn.query, catalog[i])

\* What the returned text begins with tells the three outcomes apart.
IsNoResultsText(out) ==
    out.kind = "text" /\ out.text[1] = "No se encontraron productos para '"

IsErrorText(out) ==
    out.kind = "text" /\ out.text[1] = "Error buscando productos: "

IsResultList(out) ==
    out.kind = "json" /\ out.text[1] = "[" /\ out.results # <<>>

\* C9: the product search never raises; when the store finds no product the
\* text returned is the no-results message naming the term; when the store
\* call fails the text returned is an error description; and the beginning of
\* the returned text tells no results, an error and a result list apart.
C9_SearchOutcomesReturned ==
    searchPc = "returned" =>
        /\ searchOut.kind \in {"text", "json"}
        /\ StoreFindsNothing =>
              IsNoResultsText(searchOut) /\ searchOut.text[2] = searchIn.query
        /\ StoreFails => IsErrorText(searchOut)
        /\ IsNoResultsText(searchOut) => StoreFindsNothing
        /\ IsResultList(searchOut) => ~StoreFails /\ ~StoreFindsNothing
        /\ IsNoResultsText(searchOut) \/ IsErrorText(searchOut) \/ IsResultList(searchOut)

\* C9 witness: the store answered, nothing matched, and the search returned.
C9_Witness ==
    /\ searchPc = "returned"
    /\ catalog # <<>>
    /\ StoreFindsNothing
    /\ IsNoResultsText(searchOut)

\* name contains term, ignoring case.
Contains(name, term) ==
    \E i \in 1..(Len(name) + 1) :
        /\ i + Len(term) - 1 <= Len(name)
        /\ \A j \in 1..Len(term) : Lower(term[j]) = Lower(name[i + j - 1])

\* The products whose name contains the term, in store order, as rendered.
Containing(docs, term) ==
    LET hits == SelectSeq(docs, LAMBDA d : Contains(d.name, term))
    IN  [i \in 1..Len(hits) |-> FormatProduct(hits[i])]

\* C10 (as stated): the products returned are never more than the requested
\* maximum (5 when none is given) nor than the hard cap of 50, and they are a
\* prefix, in store order, of the products whose name contains the term
\* case-insensitively.
C10_ResultsCappedPrefix ==
    (searchPc = "returned" /\ searchOut.kind = "json") =>
        /\ Len(searchOut.results) <= RequestedMax
        /\ Len(searchOut.results) <= 50
        /\ searchOut.results
             = Take(Containing(catalog, searchIn.query), Len(searchOut.results))

-----------------------------------------------------------------------------
(* Properties of the reasoning loop, as the /chat handler runs it.         *)

\* The fixed message of the exhausted loop.
FallbackMessage == "unable to produce an answer for this query"

Terminated == chatPc \in {"DONE", "FAILED"}

\* The tool results the conversation holds.
ToolResults == SelectSeq(messages, LAMBDA m : m.role = "tool")

IsToolCall(reply) == reply.variant = "ToolCallRequest"

\* C1 (as stated): when the model requests a tool on every turn, the loop
\* ends in DONE, not FAILED, with the fixed fallback message as its outcome.
C1_AlwaysToolEndsInFallback ==
    (Terminated /\ \A i \in 1..Len(script) : IsToolCall(script[i])) =>
        /\ chatPc = "DONE"
        /\ outcome.text = <<FallbackMessage>>

\* C2 (as stated): when the model makes k tool-call turns and then gives a
\* FinalAnswer, exactly k tool dispatches are performed, k + 1 model calls
\* are made and the outcome is the FinalAnswer text.
C2_DispatchesThenFinalAnswer ==
    LET k == Len(script) - 1
    IN  (/\ Terminated
         /\ \A i \in 1..k : IsToolCall(script[i])
         /\ script[k + 1].variant = "FinalAnswer") =>
            /\ chatPc = "DONE"
            /\ Len(ToolResults) = k
            /\ modelCalls = k + 1
            /\ outcome.text = <<script[k + 1].content>>

\* What executing the tool call of a reply returns.
ToolOutput(reply) ==
    IF reply.tool = "price_calculator"
    THEN PriceCalculatorArun(reply.calc.products, reply.calc.discount_percent,
                             [sums |-> TRUE, discount |-> TRUE, total |-> TRUE])
    ELSE ProductSearchArun(catalog, storeUp, reply.query, DefaultMaxResults)

\* The execution of the tool call fails: an error description comes back.
ToolFails(reply) ==
    LET out == ToolOutput(reply)
    IN  out.kind = "text"
          /\ out.text[1] \in {"Error calculando precios: ", "Error buscando productos: "}

\* C3 (as stated): a tool call whose execution fails becomes a tool result
\* carrying the error description, in the conversation for the model's next
\* turn; the request ends in FAILED only when the model call itself failed.
C3_ToolFailureBecomesToolResult ==
    Terminated =>
        /\ \A n \in 1..modelCalls :
              LET reply == ReplyAt(script, n)
              IN  (IsToolCall(reply) /\ ToolFails(reply)) =>
                      \E i \in 1..Len(messages) :
                          /\ messages[i].role = "tool"
                          /\ messages[i].content = ToolOutput(reply).text
        /\ chatPc = "FAILED" => ReplyAt(script, modelCalls).variant = "Unavailable"

-----------------------------------------------------------------------------
(* Properties of the health check.                                         *)

\* The language model round-trip of the health check succeeded.
ModelAnswers == probe.variant # "Unavailable"

\* C11: the health check returns a response, never an error; its overall
\* status is healthy if and only if the store probe and the language model
\* round-trip both succeeded, and unhealthy otherwise; the status of each
\* service is reported as its own probe went.
C11_HealthyIffBothProbesSucceed ==
    healthPc = "returned" =>
        /\ healthOut.kind = "HealthResponse"
        /\ healthOut.status \in {"healthy", "unhealthy"}
        /\ healthOut.status = "healthy" <=> (storeUp /\ ModelAnswers)
        /\ healthOut.services.mongodb = "healthy" <=> storeUp
        /\ healthOut.services.mongodb = "unhealthy" <=> ~storeUp
        /\ healthOut.services.azure_openai = "healthy" <=> ModelAnswers
        /\ healthOut.services.azure_openai = "unhealthy" <=> ~ModelAnswers

\* One probe failed, the other did not: overall unhealthy, the store's own
\* status still healthy.
C11_Witness ==
    /\ healthPc = "returned"
    /\ storeUp /\ ~ModelAnswers
    /\ healthOut.status = "unhealthy"
    /\ healthOut.services.mongodb = "healthy"
    /\ healthOut.services.azure_openai = "unhealthy"

-----------------------------------------------------------------------------
(* Properties of the Telegram bot.                                         *)

\* The update carries a text.
CarriesText(upd) == upd.hasMessage /\ upd.text.t = "str" /\ upd.text.s # <<>>

\* The call of the LLM service succeeds: a response arrives, its status is
\* a success, and its body is a JSON object.
CallSucceeds(svc) ==
    svc.kind = "response" /\ svc.status \in 200..299 /\ svc.json /\ svc.object

\* What the successful call gives: the "response" of the body, or the
\* stand-in text when the body has none.
ServiceResponse(svc) ==
    IF svc.response.t = "absent" THEN NoResponseText ELSE svc.response

\* C12: when handle_message has handled an update without text, nothing was
\* posted to the LLM service and nothing was replied; otherwise the user's
\* text was posted exactly once and exactly one reply was given: the
\* service's response when the call succeeded, the apology when it failed.
C12_OneCallOneReply ==
    botPc = "returned" =>
        IF ~CarriesText(update)
        THEN posts = <<>> /\ replies = <<>>
        ELSE /\ posts = <<update.text>>
             /\ Len(replies) = 1
             /\ CallSucceeds(service) => replies[1] = ServiceResponse(service)
             /\ ~CallSucceeds(service) => replies[1] = Apology

\* A text was handled while the service answered with an error status: the
\* apology is the one reply.
C12_Witness ==
    /\ botPc = "returned"
    /\ CarriesText(update)
    /\ service.kind = "response" /\ service.status = 500
    /\ posts = <<update.text>>
    /\ replies = <<Apology>>

=============================================================================
